---- MODULE Spec2Model ----
(***************************************************************************)
(* Model of codar_processing/plotting/plot_nc.py: the rendering pipeline   *)
(* plot_common and its two source adapters plot_radials and plot_totals.   *)
(*                                                                         *)
(* Numbers are Python floats restricted to integers, NaN and None are      *)
(* tagged values.  Arrays are numpy ndarrays: a shape and the row-major    *)
(* data.  Indices are 0-based as in the source.                            *)
(***************************************************************************)
EXTENDS Integers, Sequences, FiniteSets, TLC

\* ------------------------------------------------------------------ bounds
MaxRows == 2
MaxCols == 2
MaxSub == 2
MaxMarkers == 2
MaxCalls == 2

\* ------------------------------------------------------------------ values
Num(x) == [t |-> "num", v |-> x]
NaN == [t |-> "nan", v |-> 0]
Masked == [t |-> "masked", v |-> 0]
None == [t |-> "none", v |-> 0]

IsNum(x) == x.t = "num"
IsNaN(x) == x.t = "nan"
\* a cell that numpy / matplotlib treat as missing
Invalid(x) == x.t \in {"nan", "masked"}

\* Python truthiness of a float or None: None and 0.0 are falsy; NaN is truthy.
Truthy(x) == IF x.t = "none" THEN FALSE ELSE IF x.t = "num" THEN x.v # 0 ELSE TRUE

\* Python's `a or b`
Or(a, b) == IF Truthy(a) THEN a ELSE b

\* ------------------------------------------------------------------ ndarrays
NoArray == [shape |-> <<0>>, data |-> <<>>]

RECURSIVE Prod(_)
Prod(s) == IF s = <<>> THEN 1 ELSE Head(s) * Prod(Tail(s))

Size(a) == Prod(a.shape)
Ndim(a) == Len(a.shape)

\* a[i, j] of a 2-D array, 0-based
At(a, i, j) == a.data[i * a.shape[2] + j + 1]

\* number of indices 0, sub, 2*sub, ... below n
StrideLen(n, sub) == (n + sub - 1) \div sub

\* a[::sub, ::sub] of a 2-D array
Subsample(a, sub) ==
    LET r == StrideLen(a.shape[1], sub)
        c == StrideLen(a.shape[2], sub)
    IN [shape |-> <<r, c>>,
        data  |-> [k \in 1..(r * c) |-> At(a, ((k - 1) \div c) * sub, ((k - 1) % c) * sub)]]

NotOne(n) == n # 1

\* ndarray.squeeze(): every axis of length 1 is removed, the data are kept
Squeeze(a) == [shape |-> SelectSeq(a.shape, NotOne), data |-> a.data]

\* np.meshgrid(lon, lat): lons[i, j] = lon[j], lats[i, j] = lat[i]
MeshLons(lon, lat) ==
    [shape |-> <<Size(lat), Size(lon)>>,
     data  |-> [k \in 1..(Size(lat) * Size(lon)) |-> lon.data[((k - 1) % Size(lon)) + 1]]]
MeshLats(lon, lat) ==
    [shape |-> <<Size(lat), Size(lon)>>,
     data  |-> [k \in 1..(Size(lat) * Size(lon)) |-> lat.data[((k - 1) \div Size(lon)) + 1]]]

\* ------------------------------------------------------------------ numerics
\* ma.masked_invalid (lines 115-116): NaN cells are masked, the others kept
masked_invalid_cell(x) == IF IsNaN(x) THEN Masked ELSE x
masked_invalid(a) ==
    [shape |-> a.shape, data |-> [k \in 1..Len(a.data) |-> masked_invalid_cell(a.data[k])]]

\* integer square root; exact on the perfect squares the inputs produce
ISqrt(n) == CHOOSE r \in 0..n : r * r <= n /\ (r + 1) * (r + 1) > n

\* np.angle(u + 1j*v, deg=True) = atan2(v, u) in degrees, to the nearest degree,
\* for components u in {-3, 0, 3} and v in {-4, 0, 4} (the 3-4-5 triangle)
ArcTan2Deg(v, u) ==
    IF v = 0 THEN (IF u < 0 THEN 180 ELSE 0)
    ELSE IF u = 0 THEN (IF v > 0 THEN 90 ELSE -90)
    ELSE IF u > 0 THEN (IF v > 0 THEN 53 ELSE -53)
    ELSE (IF v > 0 THEN 127 ELSE -127)

\* missing components counted as zero
spd_cell_zero_filled(u, v) ==
    Num(ISqrt((IF Invalid(u) THEN 0 ELSE u.v * u.v) + (IF Invalid(v) THEN 0 ELSE v.v * v.v)))

\* oceans.ocfis.uv2spdir, called at line 118: np.asarray drops the mask and
\* exposes the NaN below it, spd = |u + 1j*v|, ang = mod(90 - angle, 360)
spd_cell(u, v) ==
    IF Invalid(u) \/ Invalid(v) THEN NaN ELSE Num(ISqrt(u.v * u.v + v.v * v.v))
ang_cell(u, v) ==
    IF Invalid(u) \/ Invalid(v) THEN NaN ELSE Num((90 - ArcTan2Deg(v.v, u.v)) % 360)
uv2spdir_speed(u, v) ==
    [shape |-> u.shape, data |-> [k \in 1..Len(u.data) |-> spd_cell(u.data[k], v.data[k])]]
uv2spdir_angle(u, v) ==
    [shape |-> u.shape, data |-> [k \in 1..Len(u.data) |-> ang_cell(u.data[k], v.data[k])]]

\* 5*sin(a) and 5*cos(a) for the compass angles ArcTan2Deg produces
Sin5(a) ==
    CASE a = 0 -> 0 [] a = 37 -> 3 [] a = 90 -> 5 [] a = 143 -> 3 [] a = 180 -> 0
      [] a = 217 -> -3 [] a = 270 -> -5 [] a = 323 -> -3
Cos5(a) ==
    CASE a = 0 -> 5 [] a = 37 -> 4 [] a = 90 -> 0 [] a = 143 -> -4 [] a = 180 -> -5
      [] a = 217 -> -4 [] a = 270 -> 0 [] a = 323 -> 4

\* np.ones_like(speed) (line 120): ones of the same shape, whatever speed holds
ones_like(a) == [shape |-> a.shape, data |-> [k \in 1..Len(a.data) |-> Num(1)]]

\* oceans.ocfis.spdir2uv(spd, ang, deg=True), called at lines 119-123:
\* u = spd*sin(ang), v = spd*cos(ang); the results are held in fifths
spdir2uv_u_cell(spd, ang) == IF Invalid(spd) \/ Invalid(ang) THEN NaN ELSE Num(spd.v * Sin5(ang.v))
spdir2uv_v_cell(spd, ang) == IF Invalid(spd) \/ Invalid(ang) THEN NaN ELSE Num(spd.v * Cos5(ang.v))
spdir2uv_u(spd, ang) ==
    [shape |-> spd.shape, data |-> [k \in 1..Len(spd.data) |-> spdir2uv_u_cell(spd.data[k], ang.data[k])]]
spdir2uv_v(spd, ang) ==
    [shape |-> spd.shape, data |-> [k \in 1..Len(spd.data) |-> spdir2uv_v_cell(spd.data[k], ang.data[k])]]

\* np.nanmax (line 131): the largest non-NaN value, NaN when every value is NaN
SetMax(S) == CHOOSE m \in S : \A x \in S : x <= m
nanmax(a) ==
    LET vals == {a.data[k].v : k \in {i \in 1..Len(a.data) : IsNum(a.data[i])}}
    IN IF vals = {} THEN NaN ELSE Num(SetMax(vals))

DefaultCeiling == 15

\* line 130
EffectiveMin(velocity_min) == Or(velocity_min, Num(0))
\* line 131
EffectiveMax(velocity_max, speed) == Or(Or(velocity_max, nanmax(speed)), Num(DefaultCeiling))

\* np.clip (lines 133-137): minimum(maximum(x, lo), hi), NaN propagating
Maximum(x, y) == IF Invalid(x) \/ Invalid(y) THEN NaN ELSE IF x.v >= y.v THEN x ELSE y
Minimum(x, y) == IF Invalid(x) \/ Invalid(y) THEN NaN ELSE IF x.v <= y.v THEN x ELSE y
\* the lower bound alone
clip_cell_floor_only(x, lo, hi) == Maximum(x, lo)

clip_cell(x, lo, hi) == Minimum(Maximum(x, lo), hi)
clip(a, lo, hi) == [shape |-> a.shape, data |-> [k \in 1..Len(a.data) |-> clip_cell(a.data[k], lo, hi)]]

\* lines 133-137
SpeedClipped(speed, sub, lo, hi) == Squeeze(clip(Subsample(speed, sub), lo, hi))

\* ------------------------------------------------------------------ inputs
\* (u, v) of one grid cell: calm, a 3-4-5 vector, u missing, v missing
CellVals == {<<Num(0), Num(0)>>, <<Num(-3), Num(4)>>, <<NaN, Num(4)>>, <<Num(3), NaN>>}

Grid(r, c, cells) == [shape |-> <<r, c>>, data |-> cells]

\* an r x c field holding `base` everywhere except `special` at flat index p
Field(r, c, base, p, special) ==
    [u |-> Grid(r, c, [k \in 1..(r * c) |-> IF k = p THEN special[1] ELSE base[1]]),
     v |-> Grid(r, c, [k \in 1..(r * c) |-> IF k = p THEN special[2] ELSE base[2]])]

Fields ==
    UNION {{Field(r, c, b, p, s) : b \in CellVals, s \in CellVals, p \in 1..(r * c)} :
           r \in 1..MaxRows, c \in 1..MaxCols}

Calm == <<Num(0), Num(0)>>
Flow == <<Num(-3), Num(4)>>

OkField == Field(2, 2, Flow, 1, <<NaN, Num(4)>>)
\* one row: the adapters' squeeze() turns it into a 1-D array
RowField == Field(1, 2, Flow, 1, Calm)
\* u and v of different shapes
BadField == [u |-> OkField.u, v |-> Grid(2, 3, [k \in 1..6 |-> Num(4)])]
SmallFields == {OkField, RowField, BadField}

\* coordinate axes of a grid with the given number of points
LonAxis(c) == [shape |-> <<c>>, data |-> [j \in 1..c |-> Num(j - 76)]]
LatAxis(r) == [shape |-> <<r>>, data |-> [i \in 1..r |-> Num(i + 37)]]

Rows(f) == f.u.shape[1]
Cols(f) == f.u.shape[2]

\* lon, lat as plot_common takes them: 1-D axes in meshgrid mode, else 2-D
\* arrays parallel to u
LonArg(f, mesh) ==
    IF mesh THEN LonAxis(Cols(f)) ELSE MeshLons(LonAxis(Cols(f)), LatAxis(Rows(f)))
LatArg(f, mesh) ==
    IF mesh THEN LatAxis(Rows(f)) ELSE MeshLats(LonAxis(Cols(f)), LatAxis(Rows(f)))

\* the variables of a dataset file: a leading time axis of length 1
WithTime(a) == [shape |-> <<1>> \o a.shape, data |-> a.data]

M1 == [lon |-> -74, lat |-> 38, style |-> "ro"]
M2 == [lon |-> -70, lat |-> 35, style |-> "bo"]
MarkerSpecs == {M1, M2}

RECURSIVE SeqsUpTo(_, _)
SeqsUpTo(S, n) ==
    IF n = 0 THEN {<<>>}
    ELSE SeqsUpTo(S, n - 1) \cup {Append(q, x) : q \in {t \in SeqsUpTo(S, n - 1) : Len(t) = n - 1}, x \in S}

NoMarkers == [given |-> FALSE, list |-> <<>>]
MarkerArgs == {NoMarkers} \cup {[given |-> TRUE, list |-> q] : q \in SeqsUpTo(MarkerSpecs, MaxMarkers)}

NoFile == "None"
Dest == "out/run1/map.png"
Parent(path) == IF path = Dest THEN "out/run1" ELSE "."

KINDS == {"path", "dataset", "other"}

Request(fn, kind, field, mesh, sub, vmin, vmax, markers, out) ==
    [fn |-> fn, kind |-> kind, field |-> field, meshgrid |-> mesh, sub |-> sub,
     velocity_min |-> vmin, velocity_max |-> vmax, markers |-> markers, output_file |-> out]

NoRequest == Request("none", "none", [u |-> NoArray, v |-> NoArray], TRUE, 1, None, None, NoMarkers, NoFile)

\* one render of an arbitrary field with arbitrary clipping options
NumericRequests ==
    {Request("plot_common", "none", f, mesh, sub, vmin, vmax, NoMarkers, NoFile) :
        f \in Fields, mesh \in BOOLEAN, sub \in 1..MaxSub,
        vmin \in {None, Num(2), Num(7)}, vmax \in {None, Num(3)}}

\* a batch loop: every entry point and source type, with and without a
\* destination, and every marker list
BatchRequests ==
    {Request("plot_common", "none", f, mesh, 2, None, None, NoMarkers, out) :
        f \in SmallFields, mesh \in BOOLEAN, out \in {NoFile, Dest}}
    \cup
    {Request(fn, kind, f, fn = "plot_totals", 2, None, None, NoMarkers, out) :
        fn \in {"plot_radials", "plot_totals"}, kind \in KINDS,
        f \in {OkField, RowField}, out \in {NoFile, Dest}}
    \cup
    {Request("plot_common", "none", OkField, TRUE, 1, None, None, m, out) :
        m \in MarkerArgs, out \in {NoFile, Dest}}

Requests(w) == IF w = "single" THEN NumericRequests ELSE BatchRequests

\* ------------------------------------------------------------------ state
VARIABLES
    workload,       \* "single": one render; "batch": a loop of renders
    callsLeft,      \* calls the caller still makes
    openFigs,       \* numbers of the figures pyplot holds open
    gcf,            \* pyplot's current figure, 0 when there is none
    openHandles,    \* dataset handles opened and not closed
    rcFigsize,      \* plt.rcParams["figure.figsize"], in tenths of an inch
    dirs,           \* directories that exist
    files,          \* raster files written
    pc,             \* position of the running call
    req,            \* what the caller asked for
    ret,            \* what the caller got back
    err,            \* where an exception was raised
    closing,        \* the adapter's `closing`
    ri,             \* how many of the adapter's reads (lines 45-50) are done
    lon, lat, u, v, meshgrid,
    markers, created, fig,
    angle, speed, us, vs, lons, lats,
    velocity_min, velocity_max, speed_clipped,
    h,              \* the arguments of ax.quiver
    mi,             \* markers plotted
    fi,             \* basemap features added
    trace,          \* the calls made on the figure and the file system
    common_ret      \* what plot_common returned

callerVars == <<workload, callsLeft>>
figVars == <<openFigs, gcf, created, fig>>
fsVars == <<dirs, files>>
adapterVars == <<closing, ri>>
argVars == <<lon, lat, u, v, meshgrid>>
fieldVars == <<angle, speed, us, vs>>
gridVars == <<lons, lats>>
limitVars == <<velocity_min, velocity_max>>
drawVars == <<h, mi, fi>>
vars == <<callerVars, figVars, fsVars, adapterVars, argVars, fieldVars, gridVars, limitVars,
          drawVars, openHandles, rcFigsize, pc, req, ret, err, markers, speed_clipped,
          trace, common_ret>>

NoQuiver == [X |-> NoArray, Y |-> NoArray, U |-> NoArray, V |-> NoArray, C |-> NoArray]

Ev(op, what, opt) == [op |-> op, what |-> what, opt |-> opt]

DefaultFigsize == <<64, 48>>

Init ==
    /\ workload \in {"single", "batch"}
    /\ callsLeft = (IF workload = "single" THEN 1 ELSE MaxCalls)
    /\ openFigs = {} /\ gcf = 0 /\ openHandles = 0
    /\ rcFigsize = DefaultFigsize
    /\ dirs = {"."} /\ files = {}
    /\ pc = "idle" /\ req = NoRequest /\ ret = "none" /\ err = "none"
    /\ closing = "unset" /\ ri = 0
    /\ lon = NoArray /\ lat = NoArray /\ u = NoArray /\ v = NoArray /\ meshgrid = TRUE
    /\ markers = <<>> /\ created = <<>> /\ fig = 0
    /\ angle = NoArray /\ speed = NoArray /\ us = NoArray /\ vs = NoArray
    /\ lons = NoArray /\ lats = NoArray
    /\ velocity_min = None /\ velocity_max = None /\ speed_clipped = NoArray
    /\ h = NoQuiver /\ mi = 0 /\ fi = 0 /\ trace = <<>> /\ common_ret = "none"

\* the frame of a call that has not started
FreshFrame ==
    /\ closing' = "unset" /\ ri' = 0
    /\ markers' = <<>> /\ created' = <<>> /\ fig' = 0
    /\ angle' = NoArray /\ speed' = NoArray /\ us' = NoArray /\ vs' = NoArray
    /\ lons' = NoArray /\ lats' = NoArray
    /\ speed_clipped' = NoArray
    /\ h' = NoQuiver /\ mi' = 0 /\ fi' = 0 /\ trace' = <<>> /\ common_ret' = "none"

\* ------------------------------------------------------------------ caller
\* the caller invokes plot_common, plot_radials or plot_totals
Call ==
    /\ pc = "idle" /\ callsLeft > 0
    /\ \E r \in Requests(workload) :
        /\ req' = r
        /\ IF r.fn = "plot_common"
           THEN /\ pc' = "enter"
                /\ lon' = LonArg(r.field, r.meshgrid) /\ lat' = LatArg(r.field, r.meshgrid)
                /\ u' = r.field.u /\ v' = r.field.v /\ meshgrid' = r.meshgrid
                /\ velocity_min' = r.velocity_min /\ velocity_max' = r.velocity_max
           ELSE /\ pc' = "open"
                /\ UNCHANGED <<argVars, limitVars>>
    /\ callsLeft' = callsLeft - 1
    /\ ret' = "none" /\ err' = "none"
    /\ UNCHANGED <<workload, figVars, fsVars, adapterVars, fieldVars, gridVars, drawVars,
                   openHandles, rcFigsize, markers, speed_clipped, trace, common_ret>>

\* the caller takes the result; the frame of the call is gone
Return ==
    /\ pc \in {"done", "raised"}
    /\ pc' = "idle" /\ req' = NoRequest
    /\ FreshFrame
    /\ lon' = NoArray /\ lat' = NoArray /\ u' = NoArray /\ v' = NoArray /\ meshgrid' = TRUE
    /\ velocity_min' = None /\ velocity_max' = None
    /\ UNCHANGED <<callerVars, openFigs, gcf, fsVars, openHandles, rcFigsize, ret, err>>

\* an exception leaves the running function and reaches the caller
RaiseAt(where) ==
    /\ pc' = "raised" /\ err' = where /\ ret' = "raise"

\* ------------------------------------------------------------------ adapters
\* plot_radials / plot_totals, lines 35-43 and 70-78: a path is opened and
\* closing is ds.close; a Dataset makes open_dataset raise AttributeError and
\* closing is the dummy int; anything else re-raises
Open ==
    /\ pc = "open"
    /\ CASE req.kind = "path" ->
              /\ openHandles' = openHandles + 1 /\ closing' = "ds.close" /\ pc' = "read"
              /\ UNCHANGED <<ret, err>>
         [] req.kind = "dataset" ->
              /\ closing' = "int" /\ pc' = "read"
              /\ UNCHANGED <<openHandles, ret, err>>
         [] OTHER ->
              /\ RaiseAt("open")
              /\ UNCHANGED <<openHandles, closing>>
    /\ UNCHANGED <<callerVars, figVars, fsVars, ri, argVars, fieldVars, gridVars, limitVars,
                   drawVars, rcFigsize, req, markers, speed_clipped, trace, common_ret>>

READS == <<"squeeze", "u", "v", "time", "lon", "lat">>

\* lines 45-50 and 80-85, one read at a time; tds = ds.squeeze() drops every
\* axis of length 1 of every variable
ReadVar ==
    /\ pc = "read" /\ ri < Len(READS)
    /\ LET item == READS[ri + 1]
           mesh == (req.fn = "plot_totals")
       IN /\ u' = (IF item = "u" THEN Squeeze(WithTime(req.field.u)) ELSE u)
          /\ v' = (IF item = "v" THEN Squeeze(WithTime(req.field.v)) ELSE v)
          /\ lon' = (IF item = "lon" THEN Squeeze(LonArg(req.field, mesh)) ELSE lon)
          /\ lat' = (IF item = "lat" THEN Squeeze(LatArg(req.field, mesh)) ELSE lat)
    /\ ri' = ri + 1
    /\ pc' = (IF ri + 1 = Len(READS) THEN "closing" ELSE "read")
    /\ UNCHANGED <<callerVars, figVars, fsVars, closing, meshgrid, fieldVars, gridVars,
                   limitVars, drawVars, openHandles, rcFigsize, req, ret, err, markers,
                   speed_clipped, trace, common_ret>>

\* closing() at lines 51 and 86
HandlesAfterClosing(c, n) == IF c = "ds.close" THEN n - 1 ELSE n

\* lines 51-61 and 86-97: closing(), then the call of plot_common
Closing ==
    /\ pc = "closing"
    /\ openHandles' = HandlesAfterClosing(closing, openHandles)
    /\ meshgrid' = (req.fn = "plot_totals")
    /\ velocity_min' = req.velocity_min /\ velocity_max' = req.velocity_max
    /\ pc' = "enter"
    /\ UNCHANGED <<callerVars, figVars, fsVars, adapterVars, lon, lat, u, v, fieldVars,
                   gridVars, drawVars, rcFigsize, req, ret, err, markers, speed_clipped,
                   trace, common_ret>>

\* return plot_common(...)
AdapterResultPassed(cr) == cr

\* what an adapter hands back once plot_common has returned: the call at
\* lines 52-61 and 88-97 is a statement, its value is dropped
AdapterResult(cr) == "None"

AdapterReturn ==
    /\ pc = "adapter_ret"
    /\ ret' = AdapterResult(common_ret)
    /\ pc' = "done"
    /\ UNCHANGED <<callerVars, figVars, fsVars, adapterVars, argVars, fieldVars, gridVars,
                   limitVars, drawVars, openHandles, rcFigsize, req, err, markers,
                   speed_clipped, trace, common_ret>>

\* ------------------------------------------------------------------ plot_common
\* line 111: markers = markers or []
MarkersOrEmpty(m) == IF m.given /\ m.list # <<>> THEN m.list ELSE <<>>

Enter ==
    /\ pc = "enter"
    /\ markers' = MarkersOrEmpty(req.markers)
    /\ pc' = "figure"
    /\ UNCHANGED <<callerVars, figVars, fsVars, adapterVars, argVars, fieldVars, gridVars,
                   limitVars, drawVars, openHandles, rcFigsize, req, ret, err,
                   speed_clipped, trace, common_ret>>

\* the number pyplot gives a new figure
NextNum(figs) == IF figs = {} THEN 1 ELSE SetMax(figs) + 1

\* line 113: fig = plt.figure()
NewFigure ==
    /\ pc = "figure"
    /\ LET n == NextNum(openFigs)
       IN /\ openFigs' = openFigs \cup {n} /\ gcf' = n /\ fig' = n
          /\ created' = Append(created, n)
    /\ pc' = "decompose"
    /\ UNCHANGED <<callerVars, fsVars, adapterVars, argVars, fieldVars, gridVars, limitVars,
                   drawVars, openHandles, rcFigsize, req, ret, err, markers, speed_clipped,
                   trace, common_ret>>

\* lines 115-123; u + 1j*v needs equal shapes
Decompose ==
    /\ pc = "decompose"
    /\ IF u.shape # v.shape
       THEN /\ RaiseAt("decompose")
            /\ UNCHANGED fieldVars
       ELSE LET um == masked_invalid(u)
                vm == masked_invalid(v)
                a == uv2spdir_angle(um, vm)
                s == uv2spdir_speed(um, vm)
            IN /\ angle' = a /\ speed' = s
               /\ us' = spdir2uv_u(ones_like(s), a)
               /\ vs' = spdir2uv_v(ones_like(s), a)
               /\ pc' = "meshgrid"
               /\ UNCHANGED <<ret, err>>
    /\ UNCHANGED <<callerVars, figVars, fsVars, adapterVars, argVars, gridVars, limitVars,
                   drawVars, openHandles, rcFigsize, req, markers, speed_clipped, trace,
                   common_ret>>

\* lines 125-128
Meshgrid ==
    /\ pc = "meshgrid"
    /\ lons' = (IF meshgrid THEN MeshLons(lon, lat) ELSE lon)
    /\ lats' = (IF meshgrid THEN MeshLats(lon, lat) ELSE lat)
    /\ pc' = "limits"
    /\ UNCHANGED <<callerVars, figVars, fsVars, adapterVars, argVars, fieldVars, limitVars,
                   drawVars, openHandles, rcFigsize, req, ret, err, markers, speed_clipped,
                   trace, common_ret>>

\* lines 130-131
Limits ==
    /\ pc = "limits"
    /\ velocity_min' = EffectiveMin(velocity_min)
    /\ velocity_max' = EffectiveMax(velocity_max, speed)
    /\ pc' = "clip"
    /\ UNCHANGED <<callerVars, figVars, fsVars, adapterVars, argVars, fieldVars, gridVars,
                   drawVars, openHandles, rcFigsize, req, ret, err, markers, speed_clipped,
                   trace, common_ret>>

\* lines 133-137; speed[::sub, ::sub] needs two axes
Clip ==
    /\ pc = "clip"
    /\ IF Ndim(speed) < 2
       THEN /\ RaiseAt("clip")
            /\ UNCHANGED speed_clipped
       ELSE /\ speed_clipped' = SpeedClipped(speed, req.sub, velocity_min, velocity_max)
            /\ pc' = "subplots"
            /\ UNCHANGED <<ret, err>>
    /\ UNCHANGED <<callerVars, figVars, fsVars, adapterVars, argVars, fieldVars, gridVars,
                   limitVars, drawVars, openHandles, rcFigsize, req, markers, trace,
                   common_ret>>

\* lines 139-145: fig, ax = plt.subplots(...), then the title
Subplots ==
    /\ pc = "subplots"
    /\ LET n == NextNum(openFigs)
       IN /\ openFigs' = openFigs \cup {n} /\ gcf' = n /\ fig' = n
          /\ created' = Append(created, n)
    /\ trace' = Append(trace, Ev("title", "HF Radar", <<>>))
    /\ pc' = "quiver"
    /\ UNCHANGED <<callerVars, fsVars, adapterVars, argVars, fieldVars, gridVars, limitVars,
                   drawVars, openHandles, rcFigsize, req, ret, err, markers, speed_clipped,
                   common_ret>>

\* the five arrays of lines 148-156
QuiverArgs(x, y, uu, vv, c, sub) ==
    [X |-> Subsample(x, sub), Y |-> Subsample(y, sub),
     U |-> Subsample(uu, sub), V |-> Subsample(vv, sub), C |-> c]

\* lines 148-156
Quiver ==
    /\ pc = "quiver"
    /\ h' = QuiverArgs(lons, lats, us, vs, speed_clipped, req.sub)
    /\ trace' = Append(trace, Ev("quiver", "jet", <<>>))
    /\ pc' = "colorbar"
    /\ UNCHANGED <<callerVars, figVars, fsVars, adapterVars, argVars, fieldVars, gridVars,
                   limitVars, mi, fi, openHandles, rcFigsize, req, ret, err, markers,
                   speed_clipped, common_ret>>

\* np.linspace(lo, hi, 5) at line 163, in quarters
linspace5(lo, hi) ==
    [k \in 1..5 |-> IF Invalid(lo) \/ Invalid(hi) THEN NaN
                    ELSE Num(4 * lo.v + (k - 1) * (hi.v - lo.v))]

\* lines 158-166
Colorbar ==
    /\ pc = "colorbar"
    /\ trace' = Append(trace, Ev("colorbar", "cm/s", linspace5(velocity_min, velocity_max)))
    /\ pc' = "markers"
    /\ UNCHANGED <<callerVars, figVars, fsVars, adapterVars, argVars, fieldVars, gridVars,
                   limitVars, drawVars, openHandles, rcFigsize, req, ret, err, markers,
                   speed_clipped, common_ret>>

\* lines 168-169, one turn of the loop
PlotMarker ==
    /\ pc = "markers" /\ mi < Len(markers)
    /\ trace' = Append(trace, Ev("plot", markers[mi + 1].style,
                                 <<markers[mi + 1].lon, markers[mi + 1].lat>>))
    /\ mi' = mi + 1
    /\ UNCHANGED <<callerVars, figVars, fsVars, adapterVars, argVars, fieldVars, gridVars,
                   limitVars, h, fi, openHandles, rcFigsize, pc, req, ret, err, markers,
                   speed_clipped, common_ret>>

\* lines 172-183
Gridlines ==
    /\ pc = "markers" /\ mi = Len(markers)
    /\ trace' = Append(trace, Ev("gridlines", "--", <<>>))
    /\ pc' = "extent"
    /\ UNCHANGED <<callerVars, figVars, fsVars, adapterVars, argVars, fieldVars, gridVars,
                   limitVars, drawVars, openHandles, rcFigsize, req, ret, err, markers,
                   speed_clipped, common_ret>>

ArrMin(a) == CHOOSE m \in {a.data[k].v : k \in 1..Len(a.data)} :
                \A k \in 1..Len(a.data) : m <= a.data[k].v
ArrMax(a) == SetMax({a.data[k].v : k \in 1..Len(a.data)})

\* lines 186-191
Extent(x, y) == <<ArrMin(x) - 1, ArrMax(x) + 1, ArrMin(y) - 1, ArrMax(y) + 1>>

SetExtent ==
    /\ pc = "extent"
    /\ trace' = Append(trace, Ev("set_extent", "", Extent(lon, lat)))
    /\ pc' = "features"
    /\ UNCHANGED <<callerVars, figVars, fsVars, adapterVars, argVars, fieldVars, gridVars,
                   limitVars, drawVars, openHandles, rcFigsize, req, ret, err, markers,
                   speed_clipped, common_ret>>

LandZorder == 0

\* lakes added before land
FEATURES_lakes_first ==
    <<[name |-> "LAKES", zorder |-> <<>>], [name |-> "LAND", zorder |-> <<LandZorder>>],
      [name |-> "BORDERS", zorder |-> <<>>], [name |-> "state_lines", zorder |-> <<>>]>>

\* lines 192-195: the features in the order added, with the zorder given
FEATURES ==
    <<[name |-> "LAND", zorder |-> <<LandZorder>>], [name |-> "LAKES", zorder |-> <<>>],
      [name |-> "BORDERS", zorder |-> <<>>], [name |-> "state_lines", zorder |-> <<>>]>>

\* lines 192-195, one ax.add_feature
AddFeature ==
    /\ pc = "features" /\ fi < Len(FEATURES)
    /\ trace' = Append(trace, Ev("add_feature", FEATURES[fi + 1].name, FEATURES[fi + 1].zorder))
    /\ fi' = fi + 1
    /\ UNCHANGED <<callerVars, figVars, fsVars, adapterVars, argVars, fieldVars, gridVars,
                   limitVars, h, mi, openHandles, rcFigsize, pc, req, ret, err, markers,
                   speed_clipped, common_ret>>

\* lines 197-200
RcParams ==
    /\ pc = "features" /\ fi = Len(FEATURES)
    /\ rcFigsize' = <<120, 85>>
    /\ pc' = "output"
    /\ UNCHANGED <<callerVars, figVars, fsVars, adapterVars, argVars, fieldVars, gridVars,
                   limitVars, drawVars, openHandles, req, ret, err, markers, speed_clipped,
                   trace, common_ret>>

\* plot_common hands `value` back: to the caller, or to the adapter that called it
Hands(value) ==
    /\ common_ret' = value
    /\ IF req.fn = "plot_common"
       THEN ret' = value /\ pc' = "done"
       ELSE ret' = ret /\ pc' = "adapter_ret"

\* create_dir of codar_processing.src.common: the directory exists afterwards
create_dir(d, existing) == existing \cup {d}

\* lines 202-203
CreateDir ==
    /\ pc = "output" /\ req.output_file # NoFile
    /\ dirs' = create_dir(Parent(req.output_file), dirs)
    /\ trace' = Append(trace, Ev("create_dir", Parent(req.output_file), <<>>))
    /\ pc' = "savefig"
    /\ UNCHANGED <<callerVars, figVars, files, adapterVars, argVars, fieldVars, gridVars,
                   limitVars, drawVars, openHandles, rcFigsize, req, ret, err, markers,
                   speed_clipped, common_ret>>

resoluton == 150

\* lines 204-205: the current figure is written
Savefig ==
    /\ pc = "savefig"
    /\ files' = files \cup {[path |-> req.output_file, dpi |-> resoluton]}
    /\ trace' = Append(trace, Ev("savefig", req.output_file, <<resoluton>>))
    /\ pc' = "close"
    /\ UNCHANGED <<callerVars, figVars, dirs, adapterVars, argVars, fieldVars, gridVars,
                   limitVars, drawVars, openHandles, rcFigsize, req, ret, err, markers,
                   speed_clipped, common_ret>>

\* plt.close(): only the current figure is closed
FigsAfterCloseCurrent(figs) == figs \ {SetMax(figs)}

\* plt.close('all'): no figure stays open
FigsAfterCloseAll(figs) == {}

\* line 206, and the end of the function
CloseAll ==
    /\ pc = "close"
    /\ openFigs' = FigsAfterCloseAll(openFigs) /\ gcf' = 0
    /\ trace' = Append(trace, Ev("close", "all", <<>>))
    /\ Hands("None")
    /\ UNCHANGED <<callerVars, created, fig, fsVars, adapterVars, argVars, fieldVars,
                   gridVars, limitVars, drawVars, openHandles, rcFigsize, req, err, markers,
                   speed_clipped>>

\* lines 207-208: return plt
ReturnPlt ==
    /\ pc = "output" /\ req.output_file = NoFile
    /\ Hands("plt")
    /\ UNCHANGED <<callerVars, figVars, fsVars, adapterVars, argVars, fieldVars, gridVars,
                   limitVars, drawVars, openHandles, rcFigsize, req, err, markers,
                   speed_clipped, trace>>

\* a call into xarray, matplotlib, cartopy or the file system raises: a
\* variable missing from the dataset, a bad marker style, a feature that cannot
\* be loaded, a directory that cannot be created, a file that cannot be written
CanFail ==
    \/ pc = "read" /\ ri < Len(READS)
    \/ pc \in {"quiver", "colorbar", "markers", "extent", "savefig"}
    \/ pc = "features" /\ fi < Len(FEATURES)
    \/ pc = "output" /\ req.output_file # NoFile

Raise ==
    /\ CanFail
    /\ RaiseAt(pc)
    /\ UNCHANGED <<callerVars, figVars, fsVars, adapterVars, argVars, fieldVars, gridVars,
                   limitVars, drawVars, openHandles, rcFigsize, req, markers, speed_clipped,
                   trace, common_ret>>

Next ==
    \/ Call \/ Return
    \/ Open \/ ReadVar \/ Closing \/ AdapterReturn
    \/ Enter \/ NewFigure \/ Decompose \/ Meshgrid \/ Limits \/ Clip \/ Subplots
    \/ Quiver \/ Colorbar \/ PlotMarker \/ Gridlines \/ SetExtent \/ AddFeature \/ RcParams
    \/ CreateDir \/ Savefig \/ CloseAll \/ ReturnPlt
    \/ Raise

Spec == Init /\ [][Next]_vars

\* ------------------------------------------------------------------ properties
IOOPS == {"create_dir", "savefig", "close"}
IsIo(e) == e.op \in IOOPS
IoOps == SelectSeq(trace, IsIo)
IsPlot(e) == e.op = "plot"
IsFeature(e) == e.op = "add_feature"
IsQuiver(e) == e.op = "quiver"

CommonReturned == common_ret # "none"
Ended == pc \in {"done", "raised"}
Adapters == {"plot_radials", "plot_totals"}

\* C1: when plot_common returns and a destination was given, create_dir on the
\* destination's parent, then savefig to the destination at 150 DPI, then
\* close have been called, in this order and once each, the file is written,
\* no figure is open and None is returned; when no destination was given none
\* of the three was called and the pyplot handle is returned with its figure live.
C1_OutputSink ==
    CommonReturned =>
        IF req.output_file # NoFile
        THEN /\ IoOps = <<Ev("create_dir", Parent(req.output_file), <<>>),
                          Ev("savefig", req.output_file, <<150>>),
                          Ev("close", "all", <<>>)>>
             /\ [path |-> req.output_file, dpi |-> 150] \in files
             /\ openFigs = {}
             /\ common_ret = "None"
        ELSE /\ IoOps = <<>>
             /\ common_ret = "plt"
             /\ gcf \in openFigs

\* a render without destination has returned the live handle after an earlier
\* render of the batch wrote its file into a directory that did not exist
C1_Witness ==
    /\ pc = "done" /\ req.fn = "plot_common" /\ req.output_file = NoFile /\ ret = "plt"
    /\ [path |-> Dest, dpi |-> 150] \in files /\ Parent(Dest) \in dirs

\* C2: once a call that was given a destination has ended, by return or by
\* exception, none of the figures it created is open.
C2_FiguresReleased ==
    (Ended /\ req.output_file # NoFile) => \A k \in 1..Len(created) : created[k] \notin openFigs

ClipDone == speed_clipped # NoArray
FiniteSpeeds == {speed.data[k].v : k \in {i \in 1..Len(speed.data) : IsNum(speed.data[i])}}

\* C3: with velocity_max unset the effective velocity_max the clip used is the
\* largest finite speed, and 15 when there is no finite speed or the largest is zero.
C3_DefaultCeiling ==
    (ClipDone /\ req.velocity_max = None) =>
        velocity_max = (IF FiniteSpeeds = {} \/ SetMax(FiniteSpeeds) = 0
                        THEN Num(15) ELSE Num(SetMax(FiniteSpeeds)))

Sampled == Subsample(speed, req.sub)

\* C4 as stated: every valid clipped value lies between the effective
\* velocity_min and the effective velocity_max.
C4_WithinBoth ==
    ClipDone =>
        \A k \in 1..Len(speed_clipped.data) :
            IsNum(speed_clipped.data[k]) =>
                /\ speed_clipped.data[k].v >= velocity_min.v
                /\ speed_clipped.data[k].v <= velocity_max.v

\* C4 amended: every valid clipped value is <= the effective velocity_max; when
\* velocity_min <= velocity_max it is also >= velocity_min and is the speed
\* pulled to the nearest bound; when velocity_min > velocity_max it is velocity_max.
C4_Clipped ==
    ClipDone =>
        \A k \in 1..Len(speed_clipped.data) :
            LET x == speed_clipped.data[k]
                s == Sampled.data[k]
                lo == velocity_min.v
                hi == velocity_max.v
            IN /\ IsNum(x) <=> IsNum(s)
               /\ IsNum(x) =>
                    /\ x.v <= hi
                    /\ lo <= hi => /\ x.v >= lo
                                   /\ x.v = (IF s.v < lo THEN lo ELSE IF s.v > hi THEN hi ELSE s.v)
                    /\ lo > hi => x.v = hi

\* a speed of 5 was pulled down to the ceiling 3 and a calm cell up to the floor 2
C4_Witness ==
    /\ ClipDone /\ velocity_min = Num(2) /\ velocity_max = Num(3)
    /\ \E k \in 1..Len(speed_clipped.data) : Sampled.data[k] = Num(5) /\ speed_clipped.data[k] = Num(3)
    /\ \E k \in 1..Len(speed_clipped.data) : Sampled.data[k] = Num(0) /\ speed_clipped.data[k] = Num(2)

QuiverDone == h # NoQuiver
SubShape == <<StrideLen(u.shape[1], req.sub), StrideLen(u.shape[2], req.sub)>>

\* C5: the five arrays given to quiver have one shape, that of the strided
\* grid, and element [i, j] of each is the value at grid index [i*sub, j*sub].
C5_SameShapes ==
    QuiverDone =>
        /\ h.X.shape = SubShape /\ h.Y.shape = SubShape /\ h.U.shape = SubShape
        /\ h.V.shape = SubShape /\ h.C.shape = SubShape
        /\ \A i \in 0..(SubShape[1] - 1), j \in 0..(SubShape[2] - 1) :
                /\ At(h.X, i, j) = At(lons, i * req.sub, j * req.sub)
                /\ At(h.Y, i, j) = At(lats, i * req.sub, j * req.sub)
                /\ At(h.U, i, j) = At(us, i * req.sub, j * req.sub)
                /\ At(h.V, i, j) = At(vs, i * req.sub, j * req.sub)

DecomposeDone == speed # NoArray
BadCell(k) == IsNaN(u.data[k]) \/ IsNaN(v.data[k])
\* the flat index in the quiver arrays of grid cell k, 0 when k is off the stride
QuiverIndex(k) ==
    LET i == (k - 1) \div u.shape[2]
        j == (k - 1) % u.shape[2]
    IN IF i % req.sub = 0 /\ j % req.sub = 0
       THEN (i \div req.sub) * StrideLen(u.shape[2], req.sub) + (j \div req.sub) + 1
       ELSE 0
ArrowAt(q) == IsNum(h.U.data[q]) /\ IsNum(h.V.data[q]) /\ IsNum(h.C.data[q])
Rendered(k) == QuiverIndex(k) # 0 /\ ArrowAt(QuiverIndex(k))

CellsMasked ==
    DecomposeDone =>
        \A k \in 1..Len(u.data) :
            /\ Invalid(angle.data[k]) <=> BadCell(k)
            /\ Invalid(speed.data[k]) <=> BadCell(k)
            /\ Invalid(us.data[k]) <=> BadCell(k)
            /\ Invalid(vs.data[k]) <=> BadCell(k)
NoErrorFromInvalid == (pc = "raised" /\ err = "decompose") => u.shape # v.shape

\* C6 as stated: a cell with u or v invalid has angle, speed, us and vs invalid
\* and raises nothing; every cell with u and v valid has all four valid and its
\* arrow drawn by the quiver.
C6_EveryValidCellRendered ==
    /\ CellsMasked /\ NoErrorFromInvalid
    /\ QuiverDone => \A k \in 1..Len(u.data) : ~BadCell(k) => Rendered(k)

\* C6 amended: a cell with u or v invalid has angle, speed, us and vs invalid
\* and raises nothing; a cell with both valid has all four valid, and when it
\* lies on the stride (row and column multiples of sub) the quiver draws its
\* arrow, while the arrow of an invalid cell on the stride is left out.
C6_Masked ==
    /\ CellsMasked /\ NoErrorFromInvalid
    /\ QuiverDone =>
          \A k \in 1..Len(u.data) : QuiverIndex(k) # 0 => (Rendered(k) <=> ~BadCell(k))

\* a 2 x 2 field with exactly one invalid cell went through the quiver at
\* stride 1: three arrows drawn, one left out
C6_Witness ==
    /\ QuiverDone /\ req.sub = 1 /\ Len(u.data) = 4
    /\ Cardinality({k \in 1..4 : BadCell(k)}) = 1
    /\ Cardinality({k \in 1..4 : Rendered(k)}) = 3

\* C7: once an adapter call has ended, by return or by exception, no dataset
\* handle is open.
C7_HandlesClosed == Ended => openHandles = 0

\* C8: a plot_common call that returns the live handle has created exactly one
\* figure, the one the handle shows.
C8_OneFigure ==
    (pc = "done" /\ req.fn = "plot_common" /\ ret = "plt") =>
        /\ Len(created) = 1
        /\ created[1] = gcf

DRAWOPS == {"title", "quiver", "colorbar", "plot", "gridlines", "set_extent", "add_feature"}
\* every call of an operation in A comes before every call of one in B
Before(A, B) ==
    \A i \in 1..Len(trace), j \in 1..Len(trace) :
        (trace[i].op \in A /\ trace[j].op \in B) => i < j

\* C9: the quiver is drawn before every marker; the markers drawn are the
\* MarkerSpecs given, in their order, len(markers) of them when plot_common
\* returns; the features are added in the order land, lakes, borders, state
\* lines, land with zorder 0; every draw call comes before every file call.
C9_DrawOrder ==
    /\ Before({"quiver"}, {"plot"})
    /\ SelectSeq(trace, IsPlot) =
          [k \in 1..mi |-> Ev("plot", req.markers.list[k].style,
                              <<req.markers.list[k].lon, req.markers.list[k].lat>>)]
    /\ Before({"plot"}, {"add_feature"})
    /\ \E n \in 0..4 :
          SelectSeq(trace, IsFeature) =
              SubSeq(<<Ev("add_feature", "LAND", <<0>>), Ev("add_feature", "LAKES", <<>>),
                       Ev("add_feature", "BORDERS", <<>>), Ev("add_feature", "state_lines", <<>>)>>,
                     1, n)
    /\ Before(DRAWOPS, IOOPS)
    /\ \A i \in 1..Len(trace) : trace[i].op \in DRAWOPS \cup IOOPS
    /\ CommonReturned =>
          /\ Len(SelectSeq(trace, IsQuiver)) = 1
          /\ Len(SelectSeq(trace, IsPlot)) = Len(req.markers.list)
          /\ Len(SelectSeq(trace, IsFeature)) = 4

\* two different markers were drawn and the figure was written afterwards
C9_Witness ==
    /\ pc = "done" /\ ret = "None" /\ req.output_file = Dest
    /\ req.markers.list = <<M2, M1>>
    /\ Len(SelectSeq(trace, IsPlot)) = 2

\* C10: an adapter never hands a figure handle back: when it returns the
\* result is None, also when the plot_common call it made returned the live
\* handle, and then the figures of that call stay open.
C10_AdapterReturnsNone ==
    req.fn \in Adapters =>
        /\ ret # "plt"
        /\ pc = "done" =>
              /\ ret = "None"
              /\ req.output_file = NoFile =>
                    /\ common_ret = "plt"
                    /\ gcf \in openFigs
                    /\ \A k \in 1..Len(created) : created[k] \in openFigs

\* an adapter returned None although plot_common returned the handle
C10_Witness ==
    /\ pc = "done" /\ req.fn \in Adapters /\ req.output_file = NoFile
    /\ common_ret = "plt" /\ ret = "None" /\ openFigs # {}

====
